---- MODULE Spec2Model ----
(***************************************************************************)
(* Model of the msgraph GraphClient call gate (GraphClient.go): one        *)
(* GraphClient, its apiCall mutex, its cached token, and goroutines that   *)
(* call NewGraphClient, makeGETAPICall (through the List*/Get* methods)    *)
(* and UnmarshalJSON on it.  An action is one stretch of a goroutine's     *)
(* code between two points where other goroutines can be observed: a lock  *)
(* operation, an HTTP round trip, or an access to the shared token.        *)
(* A second part models the Mail builder (the msgraph mail file): one Mail *)
(* value and the builder methods called on it by a single goroutine.       *)
(***************************************************************************)
EXTENDS Integers, Sequences, FiniteSets, TLC

\* ---------------------------------------------------------------- bounds
NumThreads == 2      \* goroutines sharing the client
MaxCalls == 2        \* invocations on the constructed client in one behaviour
MaxTime == 1         \* last instant of the clock
Validity == 2        \* validity window the identity endpoint grants

\* Safety margin of Token.WantsToBeRefreshed (Token source not in src/).
Margin == 1

Threads == 1..NumThreads

\* Values of the three identity parameters: empty or not.
Strs == {"", "id"}

\* The configuration records UnmarshalJSON is fed, and a malformed document.
Configs == [TenantID : Strs, ApplicationID : Strs, ClientSecret : Strs]
NoConfig == [TenantID |-> "-", ApplicationID |-> "-", ClientSecret |-> "-"]
BadJSON == [TenantID |-> "{", ApplicationID |-> "{", ClientSecret |-> "{"]

\* ---------------------------------------------------------------- errors
\* An error value: the chain of format strings that built it (outermost
\* first), and the status code and body text its message embeds, if any.
Nil == [text |-> <<>>, code |-> 0, body |-> ""]

NewError(msg) == [text |-> <<msg>>, code |-> 0, body |-> ""]

\* fmt.Errorf(prefix + "%v", err): the inner message is kept inside.
Errorf(prefix, e) == [e EXCEPT !.text = <<prefix>> \o @]

ConfigMessages ==
  {"Tenant ID is empty", "TenantID is empty", "ApplicationID is empty",
   "ClientSecret is empty"}

\* A configuration error: its innermost message names a missing identity field.
IsConfigurationError(e) ==
  /\ Len(e.text) > 0
  /\ e.text[Len(e.text)] \in ConfigMessages

\* ------------------------------------------------------------- responses
\* What httpClient.Do and ioutil.ReadAll hand to performRequest: doErr is a
\* transport failure, body the bytes ReadAll returned, readErr its error.
StatusCodes == {200, 299, 300, 500}
Bodies == {"json", "junk"}
Responses ==
  [doErr : {FALSE}, status : StatusCodes, body : Bodies, readErr : {FALSE}]
    \cup [doErr : {FALSE}, status : StatusCodes, body : {"junk"}, readErr : {TRUE}]
    \cup {[doErr |-> TRUE, status |-> 0, body |-> "", readErr |-> FALSE]}
NoResponse == [doErr |-> FALSE, status |-> 0, body |-> "", readErr |-> FALSE]

\* ----------------------------------------------------------------- token
\* A Token: the bearer value and its expiry.  The bearer value issued for
\* expiry e is written e, so a token is whole when both fields agree.
ZeroToken == [AccessToken |-> 0, ExpiresOn |-> 0]

WantsToBeRefreshed(tok, time) == time >= tok.ExpiresOn - Margin

GetAccessToken(tok) == tok.AccessToken

\* The credential the identity endpoint mints at instant time.
IssuedToken(time) ==
  [AccessToken |-> time + Validity, ExpiresOn |-> time + Validity]

\* What is observed of an invocation at the step in which it returns.
NoReturn ==
  [entry |-> "none", args |-> NoConfig, err |-> Nil, nposts |-> 0, ngets |-> 0]

\* What is observed of performRequest at the step in which it returns: the
\* request it sent, the response it got, whether it reached json.Unmarshal
\* and the error it returned.
NoRequest == [req |-> "none", resp |-> NoResponse, decoded |-> FALSE, err |-> Nil]

\* The client exists and can be called: NewGraphClient returned it without
\* an error ("new") or with one ("failed"), or it is a zero value ("zero");
\* "unmarshalled" once UnmarshalJSON has been called on it.
Usable == {"new", "failed", "zero", "unmarshalled"}

\* ------------------------------------------------------ the Mail value
\* Recipient{EmailAddress: EmailAddress{Address, Name}}; a field the
\* literal leaves out is the empty string.
Recipient(address, name) == [EmailAddress |-> [Address |-> address, Name |-> name]]

\* MakeMail, lines 53-66: body content type "Text", everything else empty.
MakeMail ==
  [Subject |-> "",
   Body |-> [ContentType |-> "Text", Content |-> ""],
   ToRecipients |-> <<>>,
   CcRecipients |-> <<>>,
   BccRecipients |-> <<>>,
   From |-> Recipient("", ""),
   Attachments |-> <<>>]

\* NewMail, lines 39-51: the same literal without ToRecipients, which is
\* then a nil slice: it has no elements and append extends it like an
\* empty one, so as a sequence it is <<>> too.
NewMail ==
  [Subject |-> "",
   Body |-> [ContentType |-> "Text", Content |-> ""],
   ToRecipients |-> <<>>,
   CcRecipients |-> <<>>,
   BccRecipients |-> <<>>,
   From |-> Recipient("", ""),
   Attachments |-> <<>>]

VARIABLES
  phase,          \* how the client came to be: "none" (not yet), "constructing"
                  \* (inside NewGraphClient), then one of Usable
  TenantID, ApplicationID, ClientSecret,   \* GraphClient fields
  token,          \* GraphClient.token
  apiCall,        \* GraphClient.apiCall: 0 unlocked, else the goroutine holding it
  now,            \* the clock
  calls,          \* invocations begun on the constructed client
  idPosts,        \* identity-endpoint POSTs sent so far
  pc,             \* where each goroutine is
  entry,          \* the entry point of its current (or last) invocation
  args,           \* the configuration that invocation was given
  newToken,       \* refreshToken's local newToken
  hdr,            \* Authorization header of the GET it built
  checkedAt,      \* instant of its WantsToBeRefreshed check
  nposts, ngets,  \* identity POSTs / API GETs sent by the invocation
  last,           \* the invocation that returned in the step just taken, if any
  done,           \* the performRequest that returned in the step just taken, if any
  m,              \* the Mail the builder methods are called on
  log             \* the builder calls made on m so far, with what they returned

gate ==
  <<phase, TenantID, ApplicationID, ClientSecret, token, apiCall, now, calls,
    idPosts, pc, entry, args, newToken, hdr, checkedAt, nposts, ngets, last,
    done>>
mail == <<m, log>>
vars == <<gate, mail>>

config == <<TenantID, ApplicationID, ClientSecret>>
shared == <<phase, config, token, apiCall, now, calls, idPosts>>
locals == <<entry, args, newToken, hdr, checkedAt, nposts, ngets>>
quiet == last' = NoReturn /\ done' = NoRequest

Init ==
  /\ phase = "none"
  /\ TenantID = "" /\ ApplicationID = "" /\ ClientSecret = ""
  /\ token = ZeroToken
  /\ apiCall = 0
  /\ now = 0
  /\ calls = 0
  /\ idPosts = 0
  /\ pc = [t \in Threads |-> "idle"]
  /\ entry = [t \in Threads |-> "none"]
  /\ args = [t \in Threads |-> NoConfig]
  /\ newToken = [t \in Threads |-> ZeroToken]
  /\ hdr = [t \in Threads |-> 0]
  /\ checkedAt = [t \in Threads |-> 0]
  /\ nposts = [t \in Threads |-> 0]
  /\ ngets = [t \in Threads |-> 0]
  /\ last = NoReturn
  /\ done = NoRequest
  /\ m \in {MakeMail, NewMail}
  /\ log = <<>>

\* --------------------------------------------------------- performRequest
\* Line 131: the status is outside 200..299.
StatusNotOK_Off(code) == code < 200 \/ code > 300

StatusNotOK(code) == code < 200 \/ code > 299

\* performRequest on the response r: the error it returns and whether it
\* reached json.Unmarshal(body, &v).
performRequest(r) ==
  IF r.doErr
    THEN [err |-> NewError("HTTP response error"), decoded |-> FALSE]
  ELSE IF StatusNotOK(r.status)
    THEN [err |-> [text |-> <<"StatusCode is not OK">>, code |-> r.status,
                   body |-> r.body],
          decoded |-> FALSE]
  ELSE IF r.readErr
    THEN [err |-> NewError("HTTP response read error"), decoded |-> FALSE]
  ELSE [err |-> IF r.body = "json" THEN Nil ELSE NewError("json: cannot unmarshal"),
        decoded |-> TRUE]

\* ------------------------------------------------------------- the mutex
\* sync.Mutex.Lock returns only once the mutex is unlocked.
LockAvailable_Always == TRUE

LockAvailable == apiCall = 0

\* The deferred g.apiCall.Unlock(): the mutex after a return with error e.
DeferredUnlock_SuccessOnly(e) == IF e = Nil THEN 0 ELSE apiCall

DeferredUnlock(e) == 0

\* ---------------------------------------------- entering and leaving
\* The invocation of t returns e to its caller.  NewGraphClient (line 38)
\* and makeGETAPICall (line 81) run their deferred Unlock; UnmarshalJSON
\* holds no lock and releases none.  NewGraphClient hands out &g either
\* way.  The locals of the invocation die with it.
Exit(t, e) ==
  /\ pc' = [pc EXCEPT ![t] = "idle"]
  /\ apiCall' = IF entry[t] = "UnmarshalJSON" THEN apiCall ELSE DeferredUnlock(e)
  /\ phase' = IF entry[t] # "NewGraphClient" THEN phase
               ELSE IF e = Nil THEN "new" ELSE "failed"
  /\ last' = [entry |-> entry[t], args |-> args[t], err |-> e,
              nposts |-> nposts[t], ngets |-> ngets[t]]
  /\ entry' = [entry EXCEPT ![t] = "none"]
  /\ args' = [args EXCEPT ![t] = NoConfig]
  /\ newToken' = [newToken EXCEPT ![t] = ZeroToken]
  /\ hdr' = [hdr EXCEPT ![t] = 0]
  /\ checkedAt' = [checkedAt EXCEPT ![t] = 0]
  /\ nposts' = [nposts EXCEPT ![t] = 0]
  /\ ngets' = [ngets EXCEPT ![t] = 0]

\* var g GraphClient: a zero-value client, to be initialised by UnmarshalJSON.
ZeroValueClient ==
  /\ phase = "none"
  /\ phase' = "zero"
  /\ quiet
  /\ UNCHANGED <<config, token, apiCall, now, calls, idPosts, pc, locals>>
  /\ UNCHANGED mail

\* NewGraphClient, lines 36-38: build the struct and take its lock.
NewGraphClient(t, tenantID, applicationID, clientSecret) ==
  /\ phase = "none"
  /\ pc[t] = "idle"
  /\ entry' = [entry EXCEPT ![t] = "NewGraphClient"]
  /\ args' = [args EXCEPT ![t] = [TenantID |-> tenantID,
                                  ApplicationID |-> applicationID,
                                  ClientSecret |-> clientSecret]]
  /\ phase' = "constructing"
  /\ TenantID' = tenantID
  /\ ApplicationID' = applicationID
  /\ ClientSecret' = clientSecret
  /\ token' = ZeroToken
  /\ apiCall' = t
  /\ pc' = [pc EXCEPT ![t] = "refresh"]
  /\ quiet
  /\ UNCHANGED <<now, calls, idPosts, newToken, hdr, checkedAt, nposts, ngets>>
  /\ UNCHANGED mail

\* makeGETAPICall is called (by ListUsers, ListGroups, GetUser, ...).
makeGETAPICall(t) ==
  /\ phase \in Usable
  /\ pc[t] = "idle"
  /\ calls < MaxCalls
  /\ calls' = calls + 1
  /\ entry' = [entry EXCEPT ![t] = "makeGETAPICall"]
  /\ pc' = [pc EXCEPT ![t] = "lock"]
  /\ quiet
  /\ UNCHANGED <<phase, config, token, apiCall, now, idPosts, args, newToken,
                 hdr, checkedAt, nposts, ngets>>
  /\ UNCHANGED mail

\* Line 80: g.apiCall.Lock().
Lock(t) ==
  /\ pc[t] = "lock"
  /\ LockAvailable
  /\ apiCall' = t
  /\ pc' = [pc EXCEPT ![t] = "check"]
  /\ quiet
  /\ UNCHANGED <<phase, config, token, now, calls, idPosts, locals>>
  /\ UNCHANGED mail

\* Line 83: the cached token wants to be refreshed.
TokenCheck_Always == TRUE

TokenCheck == WantsToBeRefreshed(token, now)

\* Lines 83-88: check the token, refresh it if it is stale.
CheckToken(t) ==
  /\ pc[t] = "check"
  /\ checkedAt' = [checkedAt EXCEPT ![t] = now]
  /\ pc' = [pc EXCEPT ![t] = IF TokenCheck THEN "refresh" ELSE "build"]
  /\ quiet
  /\ UNCHANGED <<shared, entry, args, newToken, hdr, nposts, ngets>>
  /\ UNCHANGED mail

\* UnmarshalJSON, lines 226-250: the fields after decoding data, assigned
\* one by one with a return at the first empty one.
FieldsAfterUnmarshal(data) ==
  IF data = BadJSON THEN <<TenantID, ApplicationID, ClientSecret>>
  ELSE IF data.TenantID = "" THEN <<"", ApplicationID, ClientSecret>>
  ELSE IF data.ApplicationID = "" THEN <<data.TenantID, "", ClientSecret>>
  ELSE <<data.TenantID, data.ApplicationID, data.ClientSecret>>

\* UnmarshalJSON, lines 233-249: the error of the validation, Nil if none.
UnmarshalError(data) ==
  IF data = BadJSON THEN NewError("json: cannot unmarshal")
  ELSE IF data.TenantID = "" THEN NewError("TenantID is empty")
  ELSE IF data.ApplicationID = "" THEN NewError("ApplicationID is empty")
  ELSE IF data.ClientSecret = "" THEN NewError("ClientSecret is empty")
  ELSE Nil

\* UnmarshalJSON up to its call of refreshToken, or to the return of a
\* validation error (no lock is taken).
UnmarshalJSON(t, data) ==
  /\ phase \in Usable
  /\ phase' = "unmarshalled"
  /\ pc[t] = "idle"
  /\ calls < MaxCalls
  /\ calls' = calls + 1
  /\ TenantID' = FieldsAfterUnmarshal(data)[1]
  /\ ApplicationID' = FieldsAfterUnmarshal(data)[2]
  /\ ClientSecret' = FieldsAfterUnmarshal(data)[3]
  /\ IF UnmarshalError(data) = Nil
       THEN /\ pc' = [pc EXCEPT ![t] = "refresh"]
            /\ entry' = [entry EXCEPT ![t] = "UnmarshalJSON"]
            /\ args' = [args EXCEPT ![t] = data]
            /\ last' = NoReturn
       ELSE /\ last' = [NoReturn EXCEPT !.entry = "UnmarshalJSON", !.args = data,
                                        !.err = UnmarshalError(data)]
            /\ UNCHANGED <<pc, entry, args>>
  /\ done' = NoRequest
  /\ UNCHANGED <<token, apiCall, now, idPosts, newToken, hdr, checkedAt,
                 nposts, ngets>>
  /\ UNCHANGED mail

\* ---------------------------------------------------------- refreshToken
\* refreshToken returns e to the function that called it: NewGraphClient
\* returns it (line 39), makeGETAPICall returns it or goes on (lines 84-88),
\* UnmarshalJSON wraps it (lines 252-256).
RefreshReturn(t, e) ==
  IF e = Nil /\ entry[t] = "makeGETAPICall"
    THEN /\ pc' = [pc EXCEPT ![t] = "build"]
         /\ last' = NoReturn
         /\ UNCHANGED <<apiCall, phase, locals>>
    ELSE Exit(t, IF e # Nil /\ entry[t] = "UnmarshalJSON"
                   THEN Errorf("Can't get Token: ", e) ELSE e)

\* refreshToken fails with e: g.token is not touched (the assignment of
\* line 74 comes after the error check of lines 71-73).
RefreshFailed_AssignFirst(t, e) ==
  /\ token' = newToken[t]
  /\ RefreshReturn(t, e)

RefreshFailed(t, e) ==
  /\ token' = token
  /\ RefreshReturn(t, e)

\* Line 44: the tenant identifier is missing.
TenantMissing_Unchecked == FALSE

TenantMissing == TenantID = ""

\* A refreshToken that waits for the apiCall lock itself.
RefreshStart_Locking(t) ==
  /\ pc[t] = "refresh"
  /\ LockAvailable
  /\ IF TenantMissing
       THEN /\ RefreshFailed(t, NewError("Tenant ID is empty"))
            /\ UNCHANGED idPosts
     ELSE /\ pc' = [pc EXCEPT ![t] = "post"]
          /\ nposts' = [nposts EXCEPT ![t] = @ + 1]
          /\ idPosts' = idPosts + 1
          /\ last' = NoReturn
          /\ UNCHANGED <<token, apiCall, phase, entry, args, newToken, hdr,
                         checkedAt, ngets>>
  /\ done' = NoRequest
  /\ UNCHANGED <<config, now, calls>>
  /\ UNCHANGED mail

\* refreshToken, lines 44-70 and performRequest up to httpClient.Do: check
\* the tenant, build the POST and send it to the identity endpoint.  The
\* URL is a constant base with an escaped path, so url.ParseRequestURI and
\* http.NewRequest succeed (the returns of lines 56 and 63 are not taken).
RefreshStart(t) ==
  /\ pc[t] = "refresh"
  /\ IF TenantMissing
       THEN /\ RefreshFailed(t, NewError("Tenant ID is empty"))
            /\ UNCHANGED idPosts
     ELSE /\ pc' = [pc EXCEPT ![t] = "post"]
          /\ nposts' = [nposts EXCEPT ![t] = @ + 1]
          /\ idPosts' = idPosts + 1
          /\ last' = NoReturn
          /\ UNCHANGED <<token, apiCall, phase, entry, args, newToken, hdr,
                         checkedAt, ngets>>
  /\ done' = NoRequest
  /\ UNCHANGED <<config, now, calls>>
  /\ UNCHANGED mail

\* performRequest returns to refreshToken (lines 124-143, 70-73): an error
\* is wrapped and returned, a decoded credential is kept in newToken.
RefreshResponse(t, r) ==
  /\ pc[t] = "post"
  /\ done' = [req |-> "POST", resp |-> r, decoded |-> performRequest(r).decoded,
              err |-> performRequest(r).err]
  /\ IF performRequest(r).err # Nil
       THEN RefreshFailed(t, Errorf("Error on getting msgraph Token: ",
                                    performRequest(r).err))
       ELSE /\ newToken' = [newToken EXCEPT ![t] = IssuedToken(now)]
            /\ pc' = [pc EXCEPT ![t] = "assign"]
            /\ last' = NoReturn
            /\ UNCHANGED <<token, apiCall, phase, entry, args, hdr, checkedAt,
                           nposts, ngets>>
  /\ UNCHANGED <<config, now, calls, idPosts>>
  /\ UNCHANGED mail

TokenFields == {"AccessToken", "ExpiresOn"}

\* Line 74, g.token = newToken: a copy of a multi-word struct.  The first
\* field f of the copy is stored; the other one follows in AssignRest.
AssignField(t, f) ==
  /\ pc[t] = "assign"
  /\ token' = [token EXCEPT ![f] = newToken[t][f]]
  /\ pc' = [pc EXCEPT ![t] = IF f = "AccessToken" THEN "assignExpiresOn"
                                                  ELSE "assignAccessToken"]
  /\ quiet
  /\ UNCHANGED <<phase, config, apiCall, now, calls, idPosts, locals>>
  /\ UNCHANGED mail

\* Lines 74-75: the copy completes and refreshToken returns nil.
AssignRest(t) ==
  /\ pc[t] \in {"assignExpiresOn", "assignAccessToken"}
  /\ token' = IF pc[t] = "assignExpiresOn"
                THEN [token EXCEPT !.ExpiresOn = newToken[t].ExpiresOn]
                ELSE [token EXCEPT !.AccessToken = newToken[t].AccessToken]
  /\ RefreshReturn(t, Nil)
  /\ done' = NoRequest
  /\ UNCHANGED <<config, now, calls, idPosts>>
  /\ UNCHANGED mail

\* ------------------------------------------------------- makeGETAPICall
\* makeGETAPICall, lines 90-115 and performRequest up to httpClient.Do:
\* build the GET, attach the cached token, send it.  The URL is a constant
\* base with an escaped path, so the returns of lines 92 and 100 are not
\* taken.
Build(t) ==
  /\ pc[t] = "build"
  /\ hdr' = [hdr EXCEPT ![t] = GetAccessToken(token)]
  /\ ngets' = [ngets EXCEPT ![t] = @ + 1]
  /\ pc' = [pc EXCEPT ![t] = "get"]
  /\ quiet
  /\ UNCHANGED <<apiCall, phase, entry, args, newToken, checkedAt, nposts>>
  /\ UNCHANGED <<config, token, now, calls, idPosts>>
  /\ UNCHANGED mail

\* A makeGETAPICall that sends a failed GET once more.
GetResponse_Resend(t, r) ==
  /\ pc[t] = "get"
  /\ done' = [req |-> "GET", resp |-> r, decoded |-> performRequest(r).decoded,
              err |-> performRequest(r).err]
  /\ IF performRequest(r).err # Nil /\ ngets[t] < 2
       THEN /\ pc' = [pc EXCEPT ![t] = "build"]
            /\ last' = NoReturn
            /\ UNCHANGED <<apiCall, phase, locals>>
       ELSE Exit(t, performRequest(r).err)
  /\ UNCHANGED <<config, token, now, calls, idPosts>>
  /\ UNCHANGED mail

\* performRequest returns to makeGETAPICall, which returns its result
\* (lines 124-143, 115).
GetResponse(t, r) ==
  /\ pc[t] = "get"
  /\ done' = [req |-> "GET", resp |-> r, decoded |-> performRequest(r).decoded,
              err |-> performRequest(r).err]
  /\ Exit(t, performRequest(r).err)
  /\ UNCHANGED <<config, token, now, calls, idPosts>>
  /\ UNCHANGED mail

\* Time passes.
Tick ==
  /\ now < MaxTime
  /\ now' = now + 1
  /\ quiet
  /\ UNCHANGED <<phase, config, token, apiCall, calls, idPosts, pc, locals>>
  /\ UNCHANGED mail

Next ==
  \/ ZeroValueClient
  \/ Tick
  \/ \E t \in Threads :
       \/ \E a, b, c \in Strs : NewGraphClient(t, a, b, c)
       \/ makeGETAPICall(t)
       \/ Lock(t)
       \/ CheckToken(t)
       \/ \E data \in Configs \cup {BadJSON} : UnmarshalJSON(t, data)
       \/ RefreshStart(t)
       \/ \E r \in Responses : RefreshResponse(t, r)
       \/ \E f \in TokenFields : AssignField(t, f)
       \/ AssignRest(t)
       \/ Build(t)
       \/ \E r \in Responses : GetResponse(t, r)

Spec == Init /\ [][Next]_vars

\* ======================================================== the claims
\* Where a goroutine stands inside refreshToken with the POST sent and not
\* yet answered, and inside the locked span of makeGETAPICall.
Refreshing == {t \in Threads : pc[t] = "post"}

SpanLabels ==
  {"check", "refresh", "post", "assign", "assignExpiresOn", "assignAccessToken",
   "build", "get"}

InSpan == {t \in Threads : entry[t] = "makeGETAPICall" /\ pc[t] \in SpanLabels}

\* Positions from which the next step of the goroutine reads or writes g.token.
TokenAccessLabels ==
  {"check", "build", "assign", "assignExpiresOn", "assignAccessToken"}

\* C1: whatever entry points the callers use, at most one identity-endpoint
\* POST of refreshToken is in flight for the client at any time.
C1_AtMostOneRefresh == Cardinality(Refreshing) <= 1

\* C2: a goroutine about to write g.token (line 74) or to read it (lines 83
\* and 104) holds the apiCall lock, on every path that reaches refreshToken.
C2_TokenAccessUnderLock ==
  \A t \in Threads : pc[t] \in TokenAccessLabels => apiCall = t

\* C3: at most one caller of makeGETAPICall is between its credential check
\* and its return, that caller holds the lock, and at most one HTTP request
\* issued by API calls is in flight; another caller has sent nothing yet.
C3_CallsSerialized ==
  /\ Cardinality(InSpan) <= 1
  /\ \A t \in InSpan : apiCall = t
  /\ Cardinality({t \in InSpan : pc[t] \in {"post", "get"}}) <= 1
  /\ \A t \in Threads :
       entry[t] = "makeGETAPICall" /\ t \notin InSpan => nposts[t] + ngets[t] = 0

\* C3 witness: one caller's GET is in flight while another caller waits for
\* the lock.
C3_Witness ==
  \E t, u \in Threads :
    /\ t # u
    /\ entry[t] = "makeGETAPICall" /\ pc[t] = "get"
    /\ entry[u] = "makeGETAPICall" /\ pc[u] = "lock"

\* C4: once makeGETAPICall or NewGraphClient has returned, on whatever exit
\* path, the returning caller does not hold apiCall and the lock is free.
C4_LockReleasedOnReturn ==
  /\ \A t \in Threads : pc[t] = "idle" => apiCall # t
  /\ last.entry \in {"makeGETAPICall", "NewGraphClient"} => apiCall = 0

\* C4 witness: an API call has just returned an error from the identity
\* endpoint while another caller waits for the lock, which is free.
C4_Witness ==
  /\ last.entry = "makeGETAPICall"
  /\ done.req = "POST"
  /\ last.err # Nil
  /\ apiCall = 0
  /\ \E u \in Threads : pc[u] = "lock"

\* Messages with which refreshToken fails (lines 45 and 72).
RefreshMessages == {"Tenant ID is empty", "Error on getting msgraph Token: "}

\* The error e comes out of a failed refreshToken.
IsRefreshError(e) == \E i \in 1..Len(e.text) : e.text[i] \in RefreshMessages

\* C5: the credential attached to an outbound API GET did not want to be
\* refreshed at the call's check (it was found valid there, or it was
\* minted by the refresh the check triggered), and a call whose refresh
\* failed has sent no GET.
C5_ValidCredentialOnGET ==
  /\ \A t \in Threads :
       pc[t] = "get" =>
         ~WantsToBeRefreshed([AccessToken |-> hdr[t], ExpiresOn |-> hdr[t]],
                             checkedAt[t])
  /\ last.entry = "makeGETAPICall" /\ IsRefreshError(last.err) => last.ngets = 0

\* C6: makeGETAPICall goes from its check into refreshToken only when the
\* cached token wants to be refreshed at that instant; and on a client built
\* by a successful NewGraphClient and used through API calls alone, the
\* identity endpoint has been contacted once by the construction and is
\* contacted again only when the cached token wants to be refreshed.
C6_RefreshOnlyAtBoundary ==
  /\ [](phase = "new" => idPosts >= 1)
  /\ [][ /\ \A t \in Threads :
              pc[t] = "check" /\ pc'[t] = "refresh"
                => WantsToBeRefreshed(token, now)
         /\ \A t \in Threads :
              entry[t] = "makeGETAPICall" /\ pc'[t] = "refresh"
                => pc[t] \in {"check", "refresh"}
         /\ phase = "new" /\ idPosts' # idPosts
              => WantsToBeRefreshed(token, now) ]_vars

\* C6 witness: every call the bound allows has been made on a client built
\* by NewGraphClient, the last one has just returned its decoded result, and
\* the identity endpoint has been contacted once in total.
C6_Witness ==
  /\ phase = "new"
  /\ calls = MaxCalls
  /\ \A t \in Threads : pc[t] = "idle"
  /\ last.entry = "makeGETAPICall" /\ last.err = Nil /\ last.ngets = 1
  /\ idPosts = 1

\* C7: a step in which refreshToken fails leaves g.token as it was, and
\* g.token changes only by the assignment of line 74, made by a goroutine
\* whose performRequest decoded a new credential, to the fields of that
\* credential.
C7_FailedRefreshKeepsToken ==
  [][ /\ IsRefreshError(last'.err) => token' = token
      /\ done'.req = "POST" /\ done'.err # Nil => token' = token
      /\ token' # token =>
           \E t \in Threads :
             /\ pc[t] \in {"assign", "assignExpiresOn", "assignAccessToken"}
             /\ newToken[t] # ZeroToken
             /\ \A f \in TokenFields : token'[f] \in {token[f], newToken[t][f]} ]_vars

\* C7 witness: a client holding a credential has just had a refresh fail on
\* the identity endpoint's answer, and still holds that credential.
C7_Witness ==
  /\ last.entry = "makeGETAPICall"
  /\ done.req = "POST" /\ done.err # Nil
  /\ token # ZeroToken
  /\ token.AccessToken = token.ExpiresOn

\* The construction paths, and what a returned construction sent.
Constructors == {"NewGraphClient", "UnmarshalJSON"}

AllEmpty(cfg) ==
  cfg.TenantID = "" /\ cfg.ApplicationID = "" /\ cfg.ClientSecret = ""

SomeEmpty(cfg) ==
  cfg.TenantID = "" \/ cfg.ApplicationID = "" \/ cfg.ClientSecret = ""

\* Construction from cfg, while it runs, has sent nothing; once returned,
\* it has sent nothing and returned a configuration error.
FailsBeforeNetwork(cfg) ==
  /\ \A t \in Threads :
       entry[t] \in Constructors /\ args[t] = cfg
         => nposts[t] = 0 /\ ngets[t] = 0 /\ pc[t] # "post"
  /\ last.entry \in Constructors /\ last.args = cfg
       => /\ IsConfigurationError(last.err)
          /\ last.nposts = 0 /\ last.ngets = 0
          /\ done.req = "none"

\* C8: construction with tenant, application and secret all empty, through
\* NewGraphClient or UnmarshalJSON, fails with a configuration error and
\* issues no network call.
C8_AllEmptyFailsBeforeNetwork ==
  \A cfg \in Configs : AllEmpty(cfg) => FailsBeforeNetwork(cfg)

\* C8 witness: NewGraphClient("", "", "") has just returned its error.
C8_Witness ==
  /\ last.entry = "NewGraphClient"
  /\ AllEmpty(last.args)
  /\ last.err # Nil

\* C9: construction with any one of tenant, application and secret empty,
\* through NewGraphClient or UnmarshalJSON, fails with a configuration error
\* before any network call.
C9_AnyEmptyFailsBeforeNetwork ==
  \A cfg \in Configs : SomeEmpty(cfg) => FailsBeforeNetwork(cfg)

\* C10: a response whose status is outside 200..299 makes performRequest,
\* and the invocation it serves, return an error carrying the status code
\* and the body; performRequest decodes into the result only for a 2xx
\* status whose body was read without error; and NewGraphClient answered
\* with HTTP 500 returns an error carrying the body and caches no token.
C10_Non2xxIsErrorWithBody ==
  /\ done.req # "none" /\ ~done.resp.doErr /\ done.resp.status \notin 200..299
       => /\ done.err # Nil
          /\ done.err.code = done.resp.status /\ done.err.body = done.resp.body
          /\ last.entry # "none"
          /\ last.err.code = done.resp.status /\ last.err.body = done.resp.body
          /\ ~done.decoded
  /\ done.decoded
       => /\ ~done.resp.doErr /\ ~done.resp.readErr
          /\ done.resp.status \in 200..299
  /\ last.entry = "NewGraphClient" /\ done.req = "POST" /\ done.resp.status = 500
       => /\ last.err # Nil
          /\ last.err.body = done.resp.body
          /\ token = ZeroToken

\* C10 witness: NewGraphClient has just failed on an HTTP 500 whose body
\* its error carries.
C10_Witness ==
  /\ last.entry = "NewGraphClient"
  /\ done.req = "POST" /\ done.resp.status = 500 /\ done.resp.body = "junk"
  /\ last.err.body = "junk" /\ last.err.code = 500
  /\ token = ZeroToken

\* ==================================================== the Mail builder
MaxOps == 3          \* builder calls made on one Mail

\* Values the calls are given.  A variadic argument list is a sequence;
\* the lists cover zero to four arguments.
Subjects == {"", "hello"}
ContentTypes == {"Text", "HTML"}
ArgLists ==
  {<<>>, <<"a@x">>, <<"a@x", "Ann">>, <<"b@x", "Bob">>,
   <<"a@x", "Ann", "b@x">>, <<"a@x", "Ann", "b@x", "Bob">>}
\* A content string is the sequence of its bytes: "", "M", "Ma", "Man",
\* "Many", and bytes whose sextets reach the last two alphabet places.
Contents ==
  {<<>>, <<77>>, <<77, 97>>, <<77, 97, 110>>, <<77, 97, 110, 121>>,
   <<251, 255>>, <<255, 255, 255>>}

\* base64.StdEncoding (line 139): the RFC 4648 alphabet, value v at v + 1,
\* and the padding character.
encodeStd ==
  <<"A", "B", "C", "D", "E", "F", "G", "H", "I", "J", "K", "L", "M",
    "N", "O", "P", "Q", "R", "S", "T", "U", "V", "W", "X", "Y", "Z",
    "a", "b", "c", "d", "e", "f", "g", "h", "i", "j", "k", "l", "m",
    "n", "o", "p", "q", "r", "s", "t", "u", "v", "w", "x", "y", "z",
    "0", "1", "2", "3", "4", "5", "6", "7", "8", "9", "+", "/">>
StdPadding == "="

\* The four characters of the 24-bit value val, most significant first.
Sextet(val, k) == encodeStd[((val \div (64 ^ (3 - k))) % 64) + 1]

\* An encoder that leaves the padding out (base64.RawStdEncoding).
RECURSIVE EncodeToString_NoPadding(_)
EncodeToString_NoPadding(src) ==
  IF Len(src) = 0 THEN <<>>
  ELSE IF Len(src) >= 3
    THEN LET val == src[1] * 65536 + src[2] * 256 + src[3]
         IN <<Sextet(val, 0), Sextet(val, 1), Sextet(val, 2), Sextet(val, 3)>>
              \o EncodeToString_NoPadding(SubSeq(src, 4, Len(src)))
  ELSE IF Len(src) = 2
    THEN LET val == src[1] * 65536 + src[2] * 256
         IN <<Sextet(val, 0), Sextet(val, 1), Sextet(val, 2)>>
  ELSE LET val == src[1] * 65536
       IN <<Sextet(val, 0), Sextet(val, 1)>>

\* b64.StdEncoding.EncodeToString([]byte(content)), line 139: every three
\* bytes give four characters; a rest of two bytes gives three characters
\* and one padding character, a rest of one byte two and two.
RECURSIVE EncodeToString(_)
EncodeToString(src) ==
  IF Len(src) = 0 THEN <<>>
  ELSE IF Len(src) >= 3
    THEN LET val == src[1] * 65536 + src[2] * 256 + src[3]
         IN <<Sextet(val, 0), Sextet(val, 1), Sextet(val, 2), Sextet(val, 3)>>
              \o EncodeToString(SubSeq(src, 4, Len(src)))
  ELSE IF Len(src) = 2
    THEN LET val == src[1] * 65536 + src[2] * 256
         IN <<Sextet(val, 0), Sextet(val, 1), Sextet(val, 2), StdPadding>>
  ELSE LET val == src[1] * 65536
       IN <<Sextet(val, 0), Sextet(val, 1), StdPadding, StdPadding>>

\* The call just made joins the log with what it returned.
Called(op, a, content, e) ==
  log' = Append(log, [op |-> op, args |-> a, content |-> content, err |-> e])

\* Subject, lines 68-70.
Subject(subject) ==
  /\ Len(log) < MaxOps
  /\ m' = [m EXCEPT !.Subject = subject]
  /\ Called("Subject", <<subject>>, <<>>, Nil)
  /\ UNCHANGED gate

\* The switch on len(recipient), lines 75-82: cases 1 and 2 build a
\* recipient, every other length is the default case.
OneOrTwo_OrMore(n) == n >= 1

OneOrTwo(n) == n = 1 \/ n = 2

\* Lines 77 and 79: the recipient built from one or two arguments.
RecipientOf(recipient) ==
  IF Len(recipient) = 1 THEN Recipient(recipient[1], "")
  ELSE Recipient(recipient[1], recipient[2])

\* AddRecipient, lines 74-85.
AddRecipient(recipient) ==
  /\ Len(log) < MaxOps
  /\ IF OneOrTwo(Len(recipient))
       THEN /\ m' = [m EXCEPT !.ToRecipients = Append(@, RecipientOf(recipient))]
            /\ Called("AddRecipient", recipient, <<>>, Nil)
       ELSE /\ m' = m
            /\ Called("AddRecipient", recipient, <<>>,
                      NewError("add recipient only accepts 1-2 arguments"))
  /\ UNCHANGED gate

\* A CCRecipient that appends to the To list.
CCRecipient_IntoTo(recipient) ==
  /\ Len(log) < MaxOps
  /\ IF OneOrTwo(Len(recipient))
       THEN /\ m' = [m EXCEPT !.ToRecipients = Append(@, RecipientOf(recipient))]
            /\ Called("CCRecipient", recipient, <<>>, Nil)
       ELSE /\ m' = m
            /\ Called("CCRecipient", recipient, <<>>,
                      NewError("CCRecipient() only accepts 1-2 arguments"))
  /\ UNCHANGED gate

\* CCRecipient, lines 88-99.
CCRecipient(recipient) ==
  /\ Len(log) < MaxOps
  /\ IF OneOrTwo(Len(recipient))
       THEN /\ m' = [m EXCEPT !.CcRecipients = Append(@, RecipientOf(recipient))]
            /\ Called("CCRecipient", recipient, <<>>, Nil)
       ELSE /\ m' = m
            /\ Called("CCRecipient", recipient, <<>>,
                      NewError("CCRecipient() only accepts 1-2 arguments"))
  /\ UNCHANGED gate

\* BCCRecipient, lines 102-113.
BCCRecipient(recipient) ==
  /\ Len(log) < MaxOps
  /\ IF OneOrTwo(Len(recipient))
       THEN /\ m' = [m EXCEPT !.BccRecipients = Append(@, RecipientOf(recipient))]
            /\ Called("BCCRecipient", recipient, <<>>, Nil)
       ELSE /\ m' = m
            /\ Called("BCCRecipient", recipient, <<>>,
                      NewError("BCCRecipient() only accepts 1-2 arguments"))
  /\ UNCHANGED gate

\* From, lines 116-127: the sender is replaced, not appended to.
From(from) ==
  /\ Len(log) < MaxOps
  /\ IF OneOrTwo(Len(from))
       THEN /\ m' = [m EXCEPT !.From = RecipientOf(from)]
            /\ Called("From", from, <<>>, Nil)
       ELSE /\ m' = m
            /\ Called("From", from, <<>>,
                      NewError("From() only accepts 1-2 arguments"))
  /\ UNCHANGED gate

\* Body, lines 129-132.
Body(contentType, content) ==
  /\ Len(log) < MaxOps
  /\ m' = [m EXCEPT !.Body = [ContentType |-> contentType, Content |-> content]]
  /\ Called("Body", <<contentType, content>>, <<>>, Nil)
  /\ UNCHANGED gate

\* AddFileAttachment, lines 134-143.
AddFileAttachment(attachmentName, contentType, content) ==
  /\ Len(log) < MaxOps
  /\ LET attachment == [DataType |-> "#microsoft.graph.fileAttachment",
                        Name |-> attachmentName,
                        ContentType |-> contentType,
                        ContentBytes |-> EncodeToString(content)]
     IN m' = [m EXCEPT !.Attachments = Append(@, attachment)]
  /\ Called("AddFileAttachment", <<attachmentName, contentType>>, content, Nil)
  /\ UNCHANGED gate

\* The builder methods called one after another on one Mail.
MailNext ==
  \/ \E subject \in Subjects : Subject(subject)
  \/ \E recipient \in ArgLists :
       \/ AddRecipient(recipient)
       \/ CCRecipient(recipient)
       \/ BCCRecipient(recipient)
       \/ From(recipient)
  \/ \E contentType \in ContentTypes, content \in Subjects : Body(contentType, content)
  \/ \E content \in Contents : AddFileAttachment("test.csv", "text/plain", content)

MailSpec == Init /\ [][MailNext]_vars

\* ----------------------------------------------- claims on the builder
\* The call made in the step just taken, where one was made.
CallMade == Len(log') = Len(log) + 1
TheCall == log'[Len(log')]

RecipientMethods == {"AddRecipient", "CCRecipient", "BCCRecipient", "From"}
ArgCountMessages ==
  {"add recipient only accepts 1-2 arguments",
   "CCRecipient() only accepts 1-2 arguments",
   "BCCRecipient() only accepts 1-2 arguments",
   "From() only accepts 1-2 arguments"}
IsArgCountError(e) == e # Nil /\ \E msg \in ArgCountMessages : e.text = <<msg>>

\* C11: AddRecipient, CCRecipient, BCCRecipient or From called with no
\* argument or with three or more returns an argument-count error and
\* leaves the whole message (the To, Cc and Bcc lists, the sender, the
\* subject, the body, the attachments) as it was.
C11_BadArgCountChangesNothing ==
  [][CallMade /\ TheCall.op \in RecipientMethods
       /\ (Len(TheCall.args) = 0 \/ Len(TheCall.args) >= 3)
       => IsArgCountError(TheCall.err) /\ m' = m]_vars

\* C11 witness: after one recipient was added, From without arguments and
\* AddRecipient with three arguments have failed, and the To list still
\* holds that one recipient.
C11_Witness ==
  /\ Len(log) = 3
  /\ log[1].op = "AddRecipient" /\ log[1].err = Nil
  /\ log[2].op = "From" /\ Len(log[2].args) = 0 /\ IsArgCountError(log[2].err)
  /\ log[3].op = "AddRecipient" /\ Len(log[3].args) = 3
  /\ IsArgCountError(log[3].err)
  /\ m.ToRecipients = <<RecipientOf(log[1].args)>>
  /\ m.From = Recipient("", "")

\* The recipient a successful call names: the address, and the name when
\* one was given.
Named(a) ==
  [EmailAddress |-> [Address |-> a[1],
                     Name |-> IF Len(a) >= 2 THEN a[2] ELSE ""]]

\* The recipients of the successful calls of one method, in call order.
Succeeded(op) == SelectSeq(log, LAMBDA c : c.op = op /\ c.err = Nil)
RecipientsNamed(op) ==
  [i \in 1..Len(Succeeded(op)) |-> Named(Succeeded(op)[i].args)]

\* The message without one of its fields.
Without(msg, field) == [f \in (DOMAIN msg) \ {field} |-> msg[f]]

\* The list each appending method writes.
ListOf ==
  [AddRecipient |-> "ToRecipients", CCRecipient |-> "CcRecipients",
   BCCRecipient |-> "BccRecipients"]

\* C12: after any sequence of builder calls the To, Cc and Bcc lists hold,
\* in call order, exactly the recipients of the successful AddRecipient,
\* CCRecipient and BCCRecipient calls; and each successful call appends one
\* entry at the end of its own list and changes no other list, nor the
\* subject, the sender, the body or the attachments.
C12_ListsFollowSuccessfulCalls ==
  /\ [](/\ m.ToRecipients = RecipientsNamed("AddRecipient")
        /\ m.CcRecipients = RecipientsNamed("CCRecipient")
        /\ m.BccRecipients = RecipientsNamed("BCCRecipient"))
  /\ [][CallMade /\ TheCall.op \in DOMAIN ListOf /\ TheCall.err = Nil
          => /\ m'[ListOf[TheCall.op]]
                  = Append(m[ListOf[TheCall.op]], Named(TheCall.args))
             /\ Without(m', ListOf[TheCall.op]) = Without(m, ListOf[TheCall.op])]_vars

\* C12 witness: two AddRecipient calls with a CCRecipient call between
\* them; the To list holds the two in call order, the Cc list the one.
C12_Witness ==
  /\ Len(log) = 3
  /\ log[1].op = "AddRecipient" /\ log[1].args = <<"b@x", "Bob">>
  /\ log[2].op = "CCRecipient" /\ log[2].args = <<"a@x", "Ann">>
  /\ log[3].op = "AddRecipient" /\ log[3].args = <<"a@x">>
  /\ m.ToRecipients = <<Recipient("b@x", "Bob"), Recipient("a@x", "")>>
  /\ m.CcRecipients = <<Recipient("a@x", "Ann")>>
  /\ m.BccRecipients = <<>>

\* Standard base64 (RFC 4648, section 4) stated on bits: the bits of the
\* bytes, most significant first, filled with zero bits to a multiple of
\* six, are cut into groups of six; each group is written as the alphabet
\* character of its value, and "=" fills the text to a multiple of four.
BitsOf(n, width) == [i \in 1..width |-> (n \div (2 ^ (width - i))) % 2]

RECURSIVE BitsOfBytes(_)
BitsOfBytes(src) ==
  IF src = <<>> THEN <<>> ELSE BitsOf(Head(src), 8) \o BitsOfBytes(Tail(src))

IsStdBase64Of(enc, src) ==
  LET bits == BitsOfBytes(src)
      filled == bits \o [i \in 1..((6 - (Len(bits) % 6)) % 6) |-> 0]
      pad == (3 - (Len(src) % 3)) % 3
      chars == Len(enc) - pad
  IN /\ Len(enc) = 4 * ((Len(src) + 2) \div 3)
     /\ chars * 6 = Len(filled)
     /\ \A i \in 1..chars :
          \E v \in 0..63 : /\ encodeStd[v + 1] = enc[i]
                           /\ BitsOf(v, 6) = SubSeq(filled, 6 * i - 5, 6 * i)
     /\ \A i \in (chars + 1)..Len(enc) : enc[i] = "="

\* C13: each AddFileAttachment call appends exactly one attachment at the
\* end of the attachment list and keeps the earlier ones in order; the new
\* attachment has the discriminator "#microsoft.graph.fileAttachment", the
\* given name and content type, and as content bytes the standard base64
\* encoding of the given content; the call changes no recipient list, nor
\* the subject, the sender or the body.
C13_AttachmentAppended ==
  [][CallMade /\ TheCall.op = "AddFileAttachment"
       => /\ TheCall.err = Nil
          /\ Len(m'.Attachments) = Len(m.Attachments) + 1
          /\ SubSeq(m'.Attachments, 1, Len(m.Attachments)) = m.Attachments
          /\ LET att == m'.Attachments[Len(m'.Attachments)]
             IN /\ DOMAIN att = {"DataType", "Name", "ContentType", "ContentBytes"}
                /\ att.DataType = "#microsoft.graph.fileAttachment"
                /\ att.Name = TheCall.args[1]
                /\ att.ContentType = TheCall.args[2]
                /\ IsStdBase64Of(att.ContentBytes, TheCall.content)
          /\ Without(m', "Attachments") = Without(m, "Attachments")]_vars

\* C13 witness: "Many", "Ma" and the bytes FB FF were attached in this
\* order; the list holds their encodings "TWFueQ==", "TWE=" and "+/8=".
C13_Witness ==
  /\ Len(log) = 3
  /\ \A i \in 1..3 : log[i].op = "AddFileAttachment"
  /\ log[1].content = <<77, 97, 110, 121>>
  /\ log[2].content = <<77, 97>>
  /\ log[3].content = <<251, 255>>
  /\ Len(m.Attachments) = 3
  /\ m.Attachments[1].ContentBytes = <<"T", "W", "F", "u", "e", "Q", "=", "=">>
  /\ m.Attachments[2].ContentBytes = <<"T", "W", "E", "=">>
  /\ m.Attachments[3].ContentBytes = <<"+", "/", "8", "=">>
  /\ m.Attachments[3].Name = "test.csv"

\* ------------------------------------------- claims on the call gate
\* Labels at which an invocation is inside refreshToken.
RefreshLabels ==
  {"refresh", "post", "assign", "assignExpiresOn", "assignAccessToken"}

\* C14: one makeGETAPICall invocation sends at most one identity POST and
\* at most one API GET, the POST before the GET (once the GET is sent the
\* invocation only waits for its response); a failed refresh is returned at
\* once, with no GET and no second POST; and the result of the GET, failed
\* or not, is returned as it is, the GET having been sent once.
C14_NoRetry ==
  /\ \A t \in Threads :
       entry[t] = "makeGETAPICall"
         => /\ nposts[t] <= 1 /\ ngets[t] <= 1
            /\ pc[t] \in RefreshLabels => ngets[t] = 0
            /\ ngets[t] = 1 => pc[t] = "get"
  /\ last.entry = "makeGETAPICall"
       => /\ last.nposts <= 1 /\ last.ngets <= 1
          /\ IsRefreshError(last.err) => last.ngets = 0
  /\ done.req = "POST" /\ done.err # Nil
       => /\ last.entry # "none" /\ last.err # Nil
          /\ last.nposts = 1 /\ last.ngets = 0
  /\ done.req = "GET"
       => /\ last.entry = "makeGETAPICall" /\ last.err = done.err
          /\ last.ngets = 1

\* C14 witness: an invocation that refreshed the token and then sent its
\* GET has just returned the GET's failure.
C14_Witness ==
  /\ last.entry = "makeGETAPICall"
  /\ last.nposts = 1 /\ last.ngets = 1
  /\ done.req = "GET" /\ done.err # Nil /\ last.err = done.err

\* C15: the credential cycle Unset -> Valid -> Stale -> Valid.  g.token
\* changes only by the assignment that ends a successful refresh; once it
\* is set it never is the zero token again; an API call that finds the
\* token in want of a refresh (stale, or still unset after a failed
\* refresh) goes into refreshToken, which contacts the identity endpoint;
\* and when that refresh succeeds the call goes on to build its GET and
\* attaches the credential that refresh obtained.
C15_CredentialCycle ==
  [][ /\ token' # token =>
           \E t \in Threads :
             /\ pc[t] \in {"assign", "assignExpiresOn", "assignAccessToken"}
             /\ pc'[t] # pc[t]
             /\ newToken[t] # ZeroToken
      /\ token # ZeroToken => token' # ZeroToken
      /\ \A t \in Threads :
           /\ pc[t] = "check" /\ pc'[t] # "check" /\ WantsToBeRefreshed(token, now)
                => pc'[t] = "refresh"
           /\ entry[t] = "makeGETAPICall" /\ pc[t] = "refresh" /\ pc'[t] # "refresh"
                /\ TenantID # ""
                => pc'[t] = "post" /\ idPosts' = idPosts + 1
           /\ entry[t] = "makeGETAPICall" /\ pc'[t] # pc[t]
                /\ pc[t] \in {"assignExpiresOn", "assignAccessToken"}
                => pc'[t] = "build"
           /\ pc[t] = "build" /\ pc'[t] = "get" /\ nposts[t] = 1
                => hdr'[t] = GetAccessToken(newToken[t]) ]_vars

\* ------------------------------------------------------------ progress
\* Progress depends on an HTTP answer only through performRequest's error:
\* one answer that decodes and one that is refused stand for all of them.
Answers ==
  {r \in Responses : /\ ~r.doErr /\ ~r.readErr
                     /\ \/ r.status = 200 /\ r.body = "json"
                        \/ r.status = 500 /\ r.body = "junk"}

\* What a goroutine does once it is past the Lock of its invocation (or
\* inside UnmarshalJSON): its own code, and HTTP requests, which the
\* client's ten-second timeout (line 121) ends.
Proceed(t) ==
  \/ CheckToken(t)
  \/ RefreshStart(t)
  \/ \E r \in Answers : RefreshResponse(t, r)
  \/ \E f \in TokenFields : AssignField(t, f)
  \/ AssignRest(t)
  \/ Build(t)
  \/ \E r \in Answers : GetResponse(t, r)

\* The steps of Next on these answers, a client configured with or without
\* a tenant, and a well-formed or malformed document for UnmarshalJSON.
\* The clock stands still: the check of line 83 goes both ways without it
\* (an unset token wants a refresh, a token just issued does not).
FairNext ==
  \/ ZeroValueClient
  \/ \E t \in Threads :
       \/ \E a \in Strs : NewGraphClient(t, a, "id", "id")
       \/ makeGETAPICall(t)
       \/ Lock(t)
       \/ \E a \in Strs :
            UnmarshalJSON(t, [TenantID |-> "id", ApplicationID |-> a,
                              ClientSecret |-> "id"])
       \/ UnmarshalJSON(t, BadJSON)
       \/ Proceed(t)

\* Every goroutine keeps running, every HTTP request ends, and a goroutine
\* waiting in Lock gets the mutex if it is free again and again.
Fairness == \A t \in Threads : WF_vars(Proceed(t)) /\ SF_vars(Lock(t))

FairSpec == Init /\ [][FairNext]_vars /\ Fairness

\* Entry points that take the apiCall lock.
Locking == {"makeGETAPICall", "NewGraphClient"}

\* C16: the call gate never deadlocks and every call returns.  While some
\* invocation is under way some goroutine can take a step; a caller waiting
\* for the lock gets it; and every invocation of makeGETAPICall or
\* NewGraphClient comes back to its caller, whatever the HTTP requests
\* answer and however many goroutines call at once.
C16_EveryCallReturns ==
  /\ []((\E t \in Threads : pc[t] # "idle")
          => ENABLED (\E t \in Threads : Lock(t) \/ Proceed(t)))
  /\ \A t \in Threads : pc[t] = "lock" ~> apiCall = t
  /\ \A t \in Threads : (entry[t] \in Locking /\ pc[t] # "idle") ~> pc[t] = "idle"

\* C16 witness: a caller waits for the lock while the holder is inside the
\* refreshToken its API call began, with its POST in flight.
C16_Witness ==
  \E t, u \in Threads :
    /\ t # u
    /\ entry[u] = "makeGETAPICall" /\ pc[u] = "lock"
    /\ entry[t] = "makeGETAPICall" /\ pc[t] = "post" /\ apiCall = t

====
